---- MODULE Spec2Model ----
(***************************************************************************)
(* Poster compositor of server/utils/image.js.                             *)
(*                                                                         *)
(* createFinalPoster is an async function: every `await` is a point where  *)
(* another job may run, so each awaited sharp operation is one action of   *)
(* the job.  A job owns its locals (loc[j]); the only state jobs share is  *)
(* the filesystem (fs), which a job touches once, in fs.writeFileSync.     *)
(*                                                                         *)
(* Two specifications:                                                     *)
(*   Spec      the jobs, interleaved at their await points;                *)
(*   PlanSpec  the geometry expressions of lines 68-75 and 111-124 applied *)
(*             to every width 1..MaxWidth (inside createFinalPoster the    *)
(*             width is always ResizeWidth).                               *)
(***************************************************************************)
EXTENDS Integers, Sequences, FiniteSets, TLC

\* ------------------------------------------------------------- bounds
MaxWidth == 900

\* Two jobs: the claims about concurrent jobs are about a pair of them
Jobs == {1, 2}

\* --------------------------------------------------- program constants
\* sharp(templatePath).resize({ width: 800 })
ResizeWidth == 800
photoLeft == 40
lineWidth == 4
lineGap == 40

\* ----------------------------------------------------------- inputs
\* The files a caller may name.  Width and height are those of the decoded
\* image; a file that sharp cannot decode has decodable = FALSE.
NoFile == [decodable |-> FALSE, width |-> 0, height |-> 0]

FileAt(path) ==
  CASE path = "template_wide.jpg" -> [decodable |-> TRUE, width |-> 1600, height |-> 900]
    [] path = "template_tall.png" -> [decodable |-> TRUE, width |-> 400, height |-> 601]
    [] path = "logo.png"          -> [decodable |-> TRUE, width |-> 300, height |-> 100]
    [] path = "asha.jpg"          -> [decodable |-> TRUE, width |-> 640, height |-> 480]
    [] path = "ravi.jpg"          -> [decodable |-> TRUE, width |-> 200, height |-> 200]
    [] OTHER                      -> NoFile

TemplatePaths == {"template_wide.jpg", "template_tall.png", "missing_template.jpg"}
LogoPaths == {"logo.png", "missing_logo.png"}
OutputPaths == {"out_a.jpg", "out_b.jpg"}

Persons ==
  { [name |-> "Asha Rao", designation |-> "Wealth Manager",
     phone |-> "9999999999", photo |-> "asha.jpg"],
    [name |-> "Ravi K", designation |-> "Health insurance advisor",
     phone |-> "8888888888", photo |-> "ravi.jpg"],
    [name |-> "Meera", designation |-> "Wealth Manager",
     phone |-> "7777777777", photo |-> "unreadable_photo.jpg"] }

NoArgs == [templatePath |-> "", logoPath |-> "", outputPath |-> "",
           person |-> [name |-> "", designation |-> "", phone |-> "", photo |-> ""]]

\* ----------------------------------------------------------- helpers
Max2(a, b) == IF a >= b THEN a ELSE b
Max3(a, b, c) == Max2(Max2(a, b), c)

\* Math.floor(x / 2) for an integer x of either sign
FloorHalf(x) == IF x >= 0 THEN x \div 2 ELSE -((1 - x) \div 2)

\* ---------------------------------------------------------- geometry
\* Math.floor(width * 0.18); the double product and the exact one have the
\* same floor for every width up to MaxWidth.
photoSize(width) == (width * 18) \div 100

\* Mutant of fontSize: a ratio of 0.10 instead of 0.14
fontSizeSmaller(width) == (photoSize(width) * 10) \div 100

\* Math.floor(photoSize * 0.14)
fontSize(width) == (photoSize(width) * 14) \div 100

\* width * 0.40 is not floored: kept as the numerator over 100
textWidthX100(width) == width * 40

\* Mutant of logoSize: the ratio mistyped as 0.015
logoSizeTenth(width) == (width * 15) \div 1000

\* Math.floor(width * 0.15)
logoSize(width) == (width * 15) \div 100

requiredTextHeight(width) == (fontSize(width) + 6) * 4

\* Mutant of footerHeight: the text block left out of the maximum
footerHeightWithoutText(width) == Max2(photoSize(width), logoSize(width)) + 20

\* The earlier revision of createFinalPoster (part_004, line 92): the text
\* raster is photoSize tall and the logo is floor(width * 0.13)
footerHeightEarlier(width) ==
  LET textMetadataHeight == photoSize(width)
  IN  Max3(photoSize(width), textMetadataHeight, (width * 13) \div 100) + 20

footerHeight(width) ==
  Max3(photoSize(width), requiredTextHeight(width), logoSize(width)) + 20

\* Mutant of textLeft: the photo's size left out
textLeftBesideMargin(width) == photoLeft + 20

\* Fixed offsets of the footer band (lines 111-124)
textLeft(width) == photoLeft + photoSize(width) + 20

rightSectionStart(width, textMetadataWidth) == textLeft(width) + textMetadataWidth

\* Mutant of lineX: the divider directly at the text raster's right edge
lineXWithoutGap(width, textMetadataWidth) == rightSectionStart(width, textMetadataWidth)

lineX(width, textMetadataWidth) == rightSectionStart(width, textMetadataWidth) + lineGap

spaceAfterLine(width, textMetadataWidth) ==
  width - (lineX(width, textMetadataWidth) + lineWidth)

\* lineX + lineWidth + (spaceAfterLine - logoSize) / 2 is a true division:
\* kept doubled, so that a half-pixel offset stays visible
logoXCenteredX2(width, textMetadataWidth) ==
  2 * (lineX(width, textMetadataWidth) + lineWidth)
    + (spaceAfterLine(width, textMetadataWidth) - logoSize(width))

lineY(width) == FloorHalf(footerHeight(width) - logoSize(width))

\* Mutant of lineHeight: a divider as tall as the footer band
lineHeightOfFooter(width) == footerHeight(width)

lineHeight(width) == logoSize(width)

\* ---------------------------------------------------------- the layers
None == [kind |-> "none"]

\* Mutant of generateFooterSVG: the first baseline at the top of the block,
\* as the earlier revision's centerY had it
generateFooterSVGFromCenterY(name, designation, phone, textWidth, fHeight, fSize) ==
  LET spacing == fSize + 6
      totalHeight == spacing * 4
      centerYX2 == fHeight - totalHeight
  IN  [kind |-> "svg", widthX100 |-> textWidth, height |-> fHeight,
       fontSize |-> fSize,
       lines |-> << [yX2 |-> centerYX2, text |-> name],
                    [yX2 |-> centerYX2 + 2 * spacing,
                     text |-> designation \o " | WealthPlus"],
                    [yX2 |-> centerYX2 + 4 * spacing, text |-> "Phone: " \o phone],
                    [yX2 |-> centerYX2 + 6 * spacing,
                     text |-> "IRDAI Certified Insurance Advisor"] >>]

\* generateFooterSVG: the four baselines are startY + k * spacing, with
\* startY = (footerHeight - totalHeight) / 2 + fontSize (kept doubled).
generateFooterSVG(name, designation, phone, textWidth, fHeight, fSize) ==
  LET spacing == fSize + 6
      totalHeight == spacing * 4
      startYX2 == (fHeight - totalHeight) + 2 * fSize
  IN  [kind |-> "svg", widthX100 |-> textWidth, height |-> fHeight,
       fontSize |-> fSize,
       lines |-> << [yX2 |-> startYX2, text |-> name],
                    [yX2 |-> startYX2 + 2 * spacing,
                     text |-> designation \o " | WealthPlus"],
                    [yX2 |-> startYX2 + 4 * spacing, text |-> "Phone: " \o phone],
                    [yX2 |-> startYX2 + 6 * spacing,
                     text |-> "IRDAI Certified Insurance Advisor"] >>]

\* sharp(templatePath).resize({ width: 800 }): the height follows the aspect
\* ratio, rounded to the nearest pixel
ResizeToWidth(path, file) ==
  [kind |-> "template", src |-> path, width |-> ResizeWidth,
   height |-> (2 * file.height * ResizeWidth + file.width) \div (2 * file.width)]

\* sharp(buffer).metadata()
Metadata(buffer) == [width |-> buffer.width, height |-> buffer.height]

\* Mutant of RasterizeSVG: the svg's width attribute ignored, so the raster
\* is as wide as the text drawn in it
RasterizeSVGFitText(svg) ==
  [kind |-> "text",
   width |-> IF svg.lines[1].text = "Asha Rao" THEN 8 * svg.fontSize
             ELSE 6 * svg.fontSize,
   height |-> svg.height, svg |-> svg]

\* sharp(Buffer.from(footerSVG)).png(): the raster has the svg's declared
\* size (a fractional width rounds up)
RasterizeSVG(svg) ==
  [kind |-> "text", width |-> (svg.widthX100 + 99) \div 100,
   height |-> svg.height, svg |-> svg]

\* sharp(person.photo).resize(photoSize, photoSize).composite(circle, dest-in).png()
CircularPhoto(photo, size) ==
  [kind |-> "photo", src |-> photo, width |-> size, height |-> size,
   circle |-> [cxX2 |-> size, cyX2 |-> size, rX2 |-> size], format |-> "png"]

\* sharp(logoPath).resize({width, height, fit: 'contain'}).flatten().jpeg()
ResizedLogo(path, size) ==
  [kind |-> "logo", src |-> path, width |-> size, height |-> size,
   channels |-> 3, format |-> "jpeg"]

\* the divider: a lineWidth x lineHeight rectangle
LineBuffer(width) ==
  [kind |-> "line", width |-> lineWidth, height |-> lineHeight(width)]

\* sharp rejects an overlay larger than the canvas and a non-integer offset
CompositeAccepts(canvasWidth, canvasHeight, layers) ==
  \A i \in 1..Len(layers) :
    /\ layers[i].input.width <= canvasWidth
    /\ layers[i].input.height <= canvasHeight
    /\ layers[i].leftX2 % 2 = 0

\* The locals of lines 66-75, computed once the template's metadata is known
Geometry(width) ==
  [width |-> width,
   photoSize |-> photoSize(width),
   fontSize |-> fontSize(width),
   textWidthX100 |-> textWidthX100(width),
   logoSize |-> logoSize(width),
   requiredTextHeight |-> requiredTextHeight(width),
   footerHeight |-> footerHeight(width)]

\* The locals of lines 111-124, computed once the text raster's metadata is known
Offsets(width, textMetadataWidth) ==
  [photoLeft |-> photoLeft,
   textLeft |-> textLeft(width),
   rightSectionStart |-> rightSectionStart(width, textMetadataWidth),
   lineX |-> lineX(width, textMetadataWidth),
   spaceAfterLine |-> spaceAfterLine(width, textMetadataWidth),
   logoXCenteredX2 |-> logoXCenteredX2(width, textMetadataWidth),
   lineY |-> lineY(width),
   lineHeight |-> lineHeight(width)]

\* The footer band (lines 129-144): a width x footerHeight canvas with the
\* four layers, each with its top and left offset
FooterLayers(l) ==
  LET g == l.geometry
      o == l.offsets
  IN  << [input |-> l.circularPhoto,
          top |-> FloorHalf(g.footerHeight - g.photoSize),
          leftX2 |-> 2 * o.photoLeft],
         [input |-> l.textBuffer,
          top |-> FloorHalf(g.footerHeight - l.textMetadata.height),
          leftX2 |-> 2 * o.textLeft],
         [input |-> l.lineBuffer, top |-> o.lineY, leftX2 |-> 2 * o.lineX],
         [input |-> l.resizedLogo,
          top |-> FloorHalf(g.footerHeight - g.logoSize),
          leftX2 |-> o.logoXCenteredX2] >>

GradientFooter(l) ==
  [kind |-> "footer", width |-> l.geometry.width,
   height |-> l.geometry.footerHeight, channels |-> 3, format |-> "jpeg",
   layers |-> FooterLayers(l)]

\* The poster (lines 146-159): the template at the top, the footer band below
FinalLayers(l) ==
  << [input |-> l.templateResized, top |-> 0, leftX2 |-> 0],
     [input |-> l.gradientFooterBuffer,
      top |-> l.templateMetadata.height, leftX2 |-> 0] >>

\* Mutant of FinalImage: the canvas as tall as the template only
FinalImageTemplateHeight(l) ==
  [kind |-> "poster", width |-> l.geometry.width,
   height |-> l.templateMetadata.height,
   channels |-> 3, format |-> "jpeg", layers |-> FinalLayers(l)]

FinalImage(l) ==
  [kind |-> "poster", width |-> l.geometry.width,
   height |-> l.templateMetadata.height + l.geometry.footerHeight,
   channels |-> 3, format |-> "jpeg", layers |-> FinalLayers(l)]

\* ------------------------------------------------------------- state
VARIABLES
  pc,         \* pc[j]: the awaited operation of job j, or idle/fulfilled/rejected
  args,       \* args[j]: { templatePath, person, logoPath, outputPath } of the call
  loc,        \* loc[j]: the locals of createFinalPoster
  fs,         \* fs[path]: what the output path holds
  trace,      \* trace[j]: the operations job j ran, each with its outcome
  before,     \* before[j]: fs[outputPath] when job j was called
  planWidth,  \* PlanSpec: the width the geometry is computed for
  plan        \* PlanSpec: the geometry and offsets computed for planWidth

\* The record store of server/utils/excel.js
VARIABLES
  excel,      \* the file at EXCEL_PATH: absent, or a workbook with its sheets
  lastCall    \* the last call of the store: its arguments, the file before it
              \* and how it ended

\* sendEmail of the mail module
VARIABLES
  mailPc,     \* the awaited operation of the sendEmail call
  mailEnv,    \* process.env: whether EMAIL and APP_PASSWORD are set
  mailData,   \* the data argument of the call
  mailLog,    \* the transporter operations the call made, each with its outcome
  mailOut     \* what the call returned or threw

\* generateFooterSVG alone
VARIABLES
  svgArgs,    \* TextSpec: the fontSize and footerHeight arguments
  svgOut      \* TextSpec: the svg generated for them

\* processCircularImage and the client components, one record each
VARIABLES
  circle,     \* CircleSpec: the call producing a circular photo layer
  admin,      \* AdminSpec: the AdminPanel component, its requests in flight
  app,        \* AppSpec: the role-based App component
  form        \* FormSpec: a form component and its submit in flight

posterVars == <<pc, args, loc, fs, trace, before, planWidth, plan>>
laterVars == <<circle, admin, app, form>>
storeVars == <<excel, lastCall>>
mailVars == <<mailPc, mailEnv, mailData, mailLog, mailOut>>
textVars == <<svgArgs, svgOut>>

\* what the poster jobs never touch
restVars == <<storeVars, mailVars, textVars, laterVars>>

vars == <<posterVars, restVars>>

NoWorkbook == [exists |-> FALSE]
NoCall == [op |-> "none", onlySaves |-> TRUE, saves |-> << >>]
NoMail == [kind |-> "none"]

LaterIdle ==
  /\ circle = [kind |-> "none"]
  /\ admin = [kind |-> "none"]
  /\ app = [kind |-> "none"]
  /\ form = [kind |-> "none"]

StoreIdle ==
  /\ excel = NoWorkbook
  /\ lastCall = NoCall

MailIdle ==
  /\ mailPc = "idle"
  /\ mailEnv = [EMAIL |-> FALSE, APP_PASSWORD |-> FALSE]
  /\ mailData = NoMail
  /\ mailLog = << >>
  /\ mailOut = NoMail

TextIdle ==
  /\ svgArgs = [fontSize |-> 0, footerHeight |-> 0]
  /\ svgOut = [kind |-> "none"]

RestIdle ==
  /\ StoreIdle
  /\ MailIdle
  /\ TextIdle
  /\ LaterIdle

\* The awaited operations of createFinalPoster, in source order, and the
\* synchronous write that ends it
Steps ==
  << "templateResized", "templateMetadata", "textBuffer", "textMetadata",
     "circularPhoto", "resizedLogo", "lineBuffer", "gradientFooterBuffer",
     "finalImageBuffer", "writeFileSync" >>

StepNames == { Steps[i] : i \in 1..Len(Steps) }

StepIndex(s) == CHOOSE i \in 1..Len(Steps) : Steps[i] = s

NoLocals ==
  [templateResized |-> None, templateMetadata |-> None, geometry |-> None,
   footerSVG |-> None, textBuffer |-> None, textMetadata |-> None,
   circularPhoto |-> None, resizedLogo |-> None, offsets |-> None,
   lineBuffer |-> None, gradientFooterBuffer |-> None,
   finalImageBuffer |-> None]

\* What an output path can hold before any job: nothing, or an earlier file
Absent == [kind |-> "absent"]
OldFile == [kind |-> "old"]
\* What a write that failed part-way leaves: the file opened with flag 'w',
\* so emptied, and only some of the bytes written
Truncated == [kind |-> "truncated"]

NoPlan == [geometry |-> None, offsets |-> None]

JobInit ==
  /\ pc = [j \in Jobs |-> "idle"]
  /\ args = [j \in Jobs |-> NoArgs]
  /\ loc = [j \in Jobs |-> NoLocals]
  /\ trace = [j \in Jobs |-> << >>]
  /\ before = [j \in Jobs |-> None]

Init ==
  /\ JobInit
  /\ fs \in [OutputPaths -> {Absent, OldFile}]
  /\ planWidth = ResizeWidth
  /\ plan = NoPlan
  /\ RestIdle


\* --------------------------------------------------- the job's steps
\* Mutant of After: the divider is not awaited before the footer composite
AfterSkippingLine(step) ==
  IF step = "resizedLogo" THEN "gradientFooterBuffer"
  ELSE IF StepIndex(step) = Len(Steps) THEN "fulfilled"
  ELSE Steps[StepIndex(step) + 1]

\* The operation that follows `step` in the function body
After(step) ==
  IF StepIndex(step) = Len(Steps) THEN "fulfilled" ELSE Steps[StepIndex(step) + 1]

Ran(j, step, outcome) ==
  trace' = [trace EXCEPT ![j] = Append(@, [op |-> step, outcome |-> outcome])]

\* The awaited operation resolved: the function goes on with its locals set
Completes(j, step, l) ==
  /\ pc' = [pc EXCEPT ![j] = After(step)]
  /\ loc' = [loc EXCEPT ![j] = l]
  /\ Ran(j, step, "ok")

\* Mutant of Throws: the failure caught and logged, the function going on
ThrowsSwallowed(j, step) ==
  /\ pc' = [pc EXCEPT ![j] = After(step)]
  /\ Ran(j, step, "throw")
  /\ UNCHANGED loc

\* The awaited operation rejected (or the synchronous call threw): there is
\* no try/catch in createFinalPoster, so its promise rejects and nothing
\* after the failing line runs
Throws(j, step) ==
  /\ pc' = [pc EXCEPT ![j] = "rejected"]
  /\ Ran(j, step, "throw")
  /\ UNCHANGED loc

\* Mutant of Call: the output file opened for writing when the job starts
CallOpeningOutput(j) ==
  /\ pc[j] = "idle"
  /\ \E t \in TemplatePaths, g \in LogoPaths, o \in OutputPaths, p \in Persons :
       /\ args' = [args EXCEPT ![j] = [templatePath |-> t, logoPath |-> g,
                                       outputPath |-> o, person |-> p]]
       /\ before' = [before EXCEPT ![j] = fs[o]]
       /\ fs' = [fs EXCEPT ![o] = Truncated]
  /\ pc' = [pc EXCEPT ![j] = Steps[1]]
  /\ UNCHANGED <<loc, trace, planWidth, plan, restVars>>

\* A caller starts a job
Call(j) ==
  /\ pc[j] = "idle"
  /\ \E t \in TemplatePaths, g \in LogoPaths, o \in OutputPaths, p \in Persons :
       /\ args' = [args EXCEPT ![j] = [templatePath |-> t, logoPath |-> g,
                                       outputPath |-> o, person |-> p]]
       /\ before' = [before EXCEPT ![j] = fs[o]]
  /\ pc' = [pc EXCEPT ![j] = Steps[1]]
  /\ UNCHANGED <<loc, fs, trace, planWidth, plan, restVars>>

\* line 64
TemplateResized(j) ==
  /\ pc[j] = "templateResized"
  /\ \/ /\ FileAt(args[j].templatePath).decodable
        /\ Completes(j, "templateResized",
             [loc[j] EXCEPT !.templateResized =
                ResizeToWidth(args[j].templatePath, FileAt(args[j].templatePath))])
     \/ Throws(j, "templateResized")
  /\ UNCHANGED <<args, fs, before, planWidth, plan, restVars>>

\* Mutant of FooterSVGFor: the person kept in a module-level variable that
\* the jobs share, so a job renders the text of another caller
FooterSVGShared(j, g) ==
  LET latest == CHOOSE k \in Jobs :
                  /\ pc[k] # "idle"
                  /\ \A m \in Jobs : pc[m] # "idle" => m <= k
  IN  generateFooterSVG(args[latest].person.name, args[latest].person.designation,
                        args[latest].person.phone, g.textWidthX100,
                        g.footerHeight, g.fontSize)

\* Mutant of FooterSVGFor: a per-process run counter drawn into the text
FooterSVGStamped(j, g) ==
  generateFooterSVG(args[j].person.name \o " #" \o ToString(j),
                    args[j].person.designation, args[j].person.phone,
                    g.textWidthX100, g.footerHeight, g.fontSize)

\* lines 77-84: the text of the job's own person
FooterSVGFor(j, g) ==
  generateFooterSVG(args[j].person.name, args[j].person.designation,
                    args[j].person.phone, g.textWidthX100, g.footerHeight,
                    g.fontSize)

\* lines 65-84: the metadata, then the geometry and the svg text
TemplateMetadata(j) ==
  /\ pc[j] = "templateMetadata"
  /\ \/ LET m == Metadata(loc[j].templateResized)
            g == Geometry(m.width)
        IN  Completes(j, "templateMetadata",
              [loc[j] EXCEPT !.templateMetadata = m, !.geometry = g,
                             !.footerSVG = FooterSVGFor(j, g)])
     \/ Throws(j, "templateMetadata")
  /\ UNCHANGED <<args, fs, before, planWidth, plan, restVars>>

\* line 86
TextBuffer(j) ==
  /\ pc[j] = "textBuffer"
  /\ \/ Completes(j, "textBuffer",
          [loc[j] EXCEPT !.textBuffer = RasterizeSVG(loc[j].footerSVG)])
     \/ Throws(j, "textBuffer")
  /\ UNCHANGED <<args, fs, before, planWidth, plan, restVars>>

\* line 87
TextMetadata(j) ==
  /\ pc[j] = "textMetadata"
  /\ \/ Completes(j, "textMetadata",
          [loc[j] EXCEPT !.textMetadata = Metadata(loc[j].textBuffer)])
     \/ Throws(j, "textMetadata")
  /\ UNCHANGED <<args, fs, before, planWidth, plan, restVars>>

\* lines 89-98
CircularPhotoStep(j) ==
  /\ pc[j] = "circularPhoto"
  /\ \/ /\ FileAt(args[j].person.photo).decodable
        /\ Completes(j, "circularPhoto",
             [loc[j] EXCEPT !.circularPhoto =
                CircularPhoto(args[j].person.photo, loc[j].geometry.photoSize)])
     \/ Throws(j, "circularPhoto")
  /\ UNCHANGED <<args, fs, before, planWidth, plan, restVars>>

\* lines 100-126: the logo, then the offsets and the divider's svg
ResizedLogoStep(j) ==
  /\ pc[j] = "resizedLogo"
  /\ \/ /\ FileAt(args[j].logoPath).decodable
        /\ Completes(j, "resizedLogo",
             [loc[j] EXCEPT
                !.resizedLogo = ResizedLogo(args[j].logoPath, loc[j].geometry.logoSize),
                !.offsets = Offsets(loc[j].geometry.width, loc[j].textMetadata.width)])
     \/ Throws(j, "resizedLogo")
  /\ UNCHANGED <<args, fs, before, planWidth, plan, restVars>>

\* line 127
LineBufferStep(j) ==
  /\ pc[j] = "lineBuffer"
  /\ \/ Completes(j, "lineBuffer",
          [loc[j] EXCEPT !.lineBuffer = LineBuffer(loc[j].geometry.width)])
     \/ Throws(j, "lineBuffer")
  /\ UNCHANGED <<args, fs, before, planWidth, plan, restVars>>

\* lines 129-144
GradientFooterBuffer(j) ==
  /\ pc[j] = "gradientFooterBuffer"
  /\ \/ /\ CompositeAccepts(loc[j].geometry.width, loc[j].geometry.footerHeight,
                            FooterLayers(loc[j]))
        /\ Completes(j, "gradientFooterBuffer",
             [loc[j] EXCEPT !.gradientFooterBuffer = GradientFooter(loc[j])])
     \/ Throws(j, "gradientFooterBuffer")
  /\ UNCHANGED <<args, fs, before, planWidth, plan, restVars>>

\* lines 146-159
FinalImageBuffer(j) ==
  /\ pc[j] = "finalImageBuffer"
  /\ \/ /\ CompositeAccepts(loc[j].geometry.width,
                            loc[j].templateMetadata.height + loc[j].geometry.footerHeight,
                            FinalLayers(loc[j]))
        /\ Completes(j, "finalImageBuffer",
             [loc[j] EXCEPT !.finalImageBuffer = FinalImage(loc[j])])
     \/ Throws(j, "finalImageBuffer")
  /\ UNCHANGED <<args, fs, before, planWidth, plan, restVars>>

\* fs.writeFileSync(path, buffer) opens the path with flag 'w' and writes the
\* buffer: the open may fail (the file is untouched), the write may fail
\* after the open emptied the file, or all the bytes are written
WriteOutcomes == {"written", "open_failed", "write_failed"}

FileAfterWrite(old, buffer, outcome) ==
  CASE outcome = "written" -> buffer
    [] outcome = "open_failed" -> old
    [] outcome = "write_failed" -> Truncated

\* line 161
WriteFileSync(j) ==
  /\ pc[j] = "writeFileSync"
  /\ \E outcome \in WriteOutcomes :
       /\ fs' = [fs EXCEPT ![args[j].outputPath] =
                   FileAfterWrite(@, loc[j].finalImageBuffer, outcome)]
       /\ IF outcome = "written"
            THEN Completes(j, "writeFileSync", loc[j])
            ELSE Throws(j, "writeFileSync")
  /\ UNCHANGED <<args, before, planWidth, plan, restVars>>

Next ==
  \E j \in Jobs :
    \/ Call(j)
    \/ TemplateResized(j)
    \/ TemplateMetadata(j)
    \/ TextBuffer(j)
    \/ TextMetadata(j)
    \/ CircularPhotoStep(j)
    \/ ResizedLogoStep(j)
    \/ LineBufferStep(j)
    \/ GradientFooterBuffer(j)
    \/ FinalImageBuffer(j)
    \/ WriteFileSync(j)

Spec == Init /\ [][Next]_vars

\* ------------------------------------------------ the geometry alone
PlanInit ==
  /\ JobInit
  /\ fs = [p \in OutputPaths |-> Absent]
  /\ planWidth \in 1..MaxWidth
  /\ plan = NoPlan
  /\ RestIdle

\* lines 68-75 and 111-124 for the width planWidth
ComputePlan ==
  /\ plan = NoPlan
  /\ plan' = [geometry |-> Geometry(planWidth),
              offsets |-> Offsets(planWidth,
                            RasterizeSVG(generateFooterSVG("", "", "",
                              textWidthX100(planWidth), footerHeight(planWidth),
                              fontSize(planWidth))).width)]
  /\ UNCHANGED <<pc, args, loc, fs, trace, before, planWidth, restVars>>

PlanNext == ComputePlan

PlanSpec == PlanInit /\ [][PlanNext]_vars

\* ============================================================ claims
Last(seq) == seq[Len(seq)]

\* job j's last operation threw at `step`
FailedAt(j, step) ==
  /\ trace[j] # << >>
  /\ Last(trace[j]).op = step
  /\ Last(trace[j]).outcome = "throw"

\* job j called fs.writeFileSync
Wrote(j) == \E i \in 1..Len(trace[j]) : trace[j][i].op = "writeFileSync"

\* no other job was given job j's output path
OwnsOutput(j) ==
  \A k \in Jobs \ {j} : args[k].outputPath # args[j].outputPath

PlanPositive(g) ==
  /\ g.photoSize > 0
  /\ g.fontSize > 0
  /\ g.textWidthX100 > 0
  /\ g.logoSize > 0
  /\ g.footerHeight > 0

C2_DecodeFailureWritesNothing ==
  \A j \in Jobs :
    (\E s \in {"templateResized", "circularPhoto", "resizedLogo"} : FailedAt(j, s)) =>
      /\ pc[j] = "rejected"
      /\ ~Wrote(j)
      /\ (OwnsOutput(j) => fs[args[j].outputPath] = before[j])

C2_Witness ==
  \E j \in Jobs :
    /\ FailedAt(j, "circularPhoto")
    /\ args[j].person.photo = "unreadable_photo.jpg"
    /\ OwnsOutput(j)
    /\ fs[args[j].outputPath] = OldFile

Settled(j) == pc[j] \in {"fulfilled", "rejected"}

\* C3 as stated: once a job has settled, its output path holds what it held
\* before the job, or nothing, or the complete poster, also when the write
\* itself failed; and the job settled once, as a success or as a failure.
C3_NoHalfWrittenFile ==
  \A j \in Jobs :
    (Settled(j) /\ OwnsOutput(j)) =>
      /\ fs[args[j].outputPath] \in {before[j], Absent, loc[j].finalImageBuffer}
      /\ pc[j] = "fulfilled" <=> (trace[j] # << >> /\ Last(trace[j]).outcome = "ok")

\* the text lines of a poster's footer band
PosterText(poster) ==
  LET footer == poster.layers[2].input
      svg == footer.layers[2].input.svg
  IN  [i \in 1..Len(svg.lines) |-> svg.lines[i].text]

PosterPhoto(poster) == poster.layers[2].input.layers[1].input.src

\* C4: two jobs with distinct output paths and the same template and logo,
\* interleaved at their await points, each end with their own file holding
\* that job's name, designation, phone and photo, with the dimensions the
\* template alone decides, whatever the other job did.
C4_ConcurrentJobsIndependent ==
  \A j \in Jobs : \A k \in Jobs \ {j} :
    ( /\ pc[j] = "fulfilled"
      /\ pc[k] # "idle"
      /\ args[j].outputPath # args[k].outputPath
      /\ args[j].templatePath = args[k].templatePath
      /\ args[j].logoPath = args[k].logoPath ) =>
      LET f == fs[args[j].outputPath]
          t == ResizeToWidth(args[j].templatePath, FileAt(args[j].templatePath))
      IN  /\ f.kind = "poster"
          /\ f = loc[j].finalImageBuffer
          /\ PosterText(f) = << args[j].person.name,
                                args[j].person.designation \o " | WealthPlus",
                                "Phone: " \o args[j].person.phone,
                                "IRDAI Certified Insurance Advisor" >>
          /\ PosterPhoto(f) = args[j].person.photo
          /\ f.width = t.width
          /\ f.height = t.height + footerHeight(t.width)

C4_Witness ==
  /\ pc[1] = "fulfilled" /\ pc[2] = "fulfilled"
  /\ args[1].outputPath # args[2].outputPath
  /\ args[1].templatePath = args[2].templatePath
  /\ args[1].logoPath = args[2].logoPath
  /\ args[1].person.name = "Asha Rao" /\ args[2].person.name = "Ravi K"
  /\ Last(trace[1]).op = "writeFileSync" /\ Last(trace[2]).op = "writeFileSync"

\* C5: the poster is as wide as the resized template and exactly
\* templateHeight + footerHeight tall; the template is pasted at top 0 and
\* the footer band at top = templateHeight, so the two tile the canvas
\* without overlap and without gap.
C5_PosterStacksTemplateAndFooter ==
  \A j \in Jobs :
    loc[j].finalImageBuffer # None =>
      LET f == loc[j].finalImageBuffer
          template == f.layers[1]
          footer == f.layers[2]
      IN  /\ f.width = loc[j].templateResized.width
          /\ f.height = loc[j].templateResized.height + loc[j].geometry.footerHeight
          /\ template.input = loc[j].templateResized
          /\ template.top = 0
          /\ footer.top = template.top + template.input.height
          /\ footer.input.height = loc[j].geometry.footerHeight
          /\ footer.top + footer.input.height = f.height
          /\ template.input.width = f.width /\ footer.input.width = f.width
          /\ template.leftX2 = 0 /\ footer.leftX2 = 0

C5_Witness ==
  \E j \in Jobs :
    /\ loc[j].finalImageBuffer # None
    /\ args[j].templatePath = "template_tall.png"
    /\ loc[j].finalImageBuffer.height = 1202 + 164

\* C6: a failure of any operation of the job aborts it: the failing operation
\* is the last one the job runs, no operation is run twice, and the job's
\* promise is rejected.
C6_FailureAbortsJob ==
  \A j \in Jobs :
    /\ \A i \in 1..Len(trace[j]) :
         trace[j][i].outcome = "throw" => (i = Len(trace[j]) /\ pc[j] = "rejected")
    /\ \A i \in 1..Len(trace[j]) : \A m \in 1..Len(trace[j]) :
         trace[j][i].op = trace[j][m].op => i = m
    /\ pc[j] = "rejected" => (trace[j] # << >> /\ Last(trace[j]).outcome = "throw")
    /\ pc[j] = "fulfilled" => \A i \in 1..Len(trace[j]) : trace[j][i].outcome = "ok"

C6_Witness ==
  /\ FailedAt(1, "gradientFooterBuffer")
  /\ FailedAt(2, "lineBuffer")
  /\ Len(trace[1]) = 8
  /\ Len(trace[2]) = 7

\* C7: the operations of a job run in source order; the footer composite
\* starts only with the text, photo, logo and divider layers complete, the
\* final stacking only with the footer band complete; the write happens at
\* most once, as the last operation, after every earlier one succeeded.
C7_StagesInSequence ==
  \A j \in Jobs :
    /\ Len(trace[j]) <= Len(Steps)
    /\ \A i \in 1..Len(trace[j]) : trace[j][i].op = Steps[i]
    /\ pc[j] \in StepNames => StepIndex(pc[j]) = Len(trace[j]) + 1
    /\ pc[j] = "gradientFooterBuffer" =>
         /\ loc[j].textBuffer # None
         /\ loc[j].circularPhoto # None
         /\ loc[j].resizedLogo # None
         /\ loc[j].lineBuffer # None
    /\ pc[j] = "finalImageBuffer" => loc[j].gradientFooterBuffer # None
    /\ Wrote(j) =>
         /\ Last(trace[j]).op = "writeFileSync"
         /\ \A i \in 1..(Len(trace[j]) - 1) : trace[j][i].outcome = "ok"
         /\ loc[j].finalImageBuffer # None
    /\ pc[j] = "fulfilled" => Wrote(j)
    /\ (~Wrote(j) /\ OwnsOutput(j) /\ pc[j] # "idle") =>
         fs[args[j].outputPath] = before[j]

C7_Witness ==
  \E j \in Jobs :
    /\ pc[j] = "fulfilled"
    /\ Len(trace[j]) = Len(Steps)
    /\ fs[args[j].outputPath] = loc[j].finalImageBuffer

Placements(footer) ==
  [i \in 1..Len(footer.layers) |->
     [top |-> footer.layers[i].top, leftX2 |-> footer.layers[i].leftX2,
      width |-> footer.layers[i].input.width,
      height |-> footer.layers[i].input.height]]

\* C9: every dimension and offset of the footer band depends on the resized
\* template's width alone: two jobs with the same width compute the same
\* geometry, offsets and layer placements, whoever the member is.
C9_GeometryFromWidthAlone ==
  \A j \in Jobs : \A k \in Jobs \ {j} :
    ( /\ loc[j].geometry # None /\ loc[k].geometry # None
      /\ loc[j].templateMetadata.width = loc[k].templateMetadata.width ) =>
      /\ loc[j].geometry = loc[k].geometry
      /\ (loc[j].offsets # None /\ loc[k].offsets # None) =>
           loc[j].offsets = loc[k].offsets
      /\ (loc[j].gradientFooterBuffer # None /\ loc[k].gradientFooterBuffer # None) =>
           Placements(loc[j].gradientFooterBuffer) = Placements(loc[k].gradientFooterBuffer)

C9_Witness ==
  /\ loc[1].gradientFooterBuffer # None /\ loc[2].gradientFooterBuffer # None
  /\ args[1].person.name = "Asha Rao" /\ args[2].person.name = "Ravi K"
  /\ args[1].templatePath # args[2].templatePath
  /\ loc[1].offsets.logoXCenteredX2 = 2 * 624

\* C10: for the template width 800 the plan has 120 <= photoSize <= 144,
\* 17 <= fontSize <= 20, 104 <= logoSize <= 144 and
\* footerHeight >= max(photoSize, fontSize, logoSize) + 20, and the poster is
\* 800 wide and templateHeight + footerHeight tall.
C10_PlanForWidth800 ==
  \A j \in Jobs :
    /\ (loc[j].geometry # None /\ loc[j].geometry.width = 800) =>
         LET g == loc[j].geometry
         IN  /\ 120 <= g.photoSize /\ g.photoSize <= 144
             /\ 17 <= g.fontSize /\ g.fontSize <= 20
             /\ 104 <= g.logoSize /\ g.logoSize <= 144
             /\ g.footerHeight >= Max3(g.photoSize, g.fontSize, g.logoSize) + 20
    /\ pc[j] = "fulfilled" =>
         /\ loc[j].templateMetadata.width = 800
         /\ fs[args[j].outputPath].kind = "poster" =>
              /\ fs[args[j].outputPath].width = 800
              /\ OwnsOutput(j) =>
                   fs[args[j].outputPath].height
                     = loc[j].templateMetadata.height + loc[j].geometry.footerHeight

C10_Witness ==
  \E j \in Jobs :
    /\ pc[j] = "fulfilled"
    /\ args[j].person.name = "Asha Rao"
    /\ args[j].templatePath = "template_wide.jpg"
    /\ fs[args[j].outputPath].width = 800
    /\ fs[args[j].outputPath].height = 450 + 164
    /\ loc[j].geometry.photoSize = 144

\* ===================================================== the record store
\* server/utils/excel.js: the member records kept in the sheet 'Members'
\* of the workbook at EXCEL_PATH.
MaxRows == 3

Emails == {"asha@wp.in", "ravi@wp.in"}
Designations == {"Health insurance advisor", "Wealth Manager"}
Phones == {"9999999999", "8888888888"}

\* the records callers pass: every field a non-empty string
MemberRecords == [email : Emails, designation : Designations, phone : Phones]

Header == << "email", "designation", "phone" >>

\* XLSX.utils.json_to_sheet: a header row with the keys of the records, then
\* one row of cells per record, in order
json_to_sheet(data) ==
  [header |-> IF data = << >> THEN << >> ELSE Header,
   rows |-> [i \in 1..Len(data) |-> [c \in 1..Len(Header) |-> data[i][Header[c]]]]]

\* XLSX.utils.sheet_to_json: one record per row below the header, keyed by
\* the header cells
sheet_to_json(sheet) ==
  [i \in 1..Len(sheet.rows) |->
     [k \in {sheet.header[c] : c \in 1..Len(sheet.header)} |->
        sheet.rows[i][CHOOSE c \in 1..Len(sheet.header) : sheet.header[c] = k]]]

\* XLSX.writeFile(workbook, EXCEL_PATH) with the sheet 'Members' set
WorkbookWith(sheet) == [exists |-> TRUE, Members |-> sheet]

Returns(file, value) == [file |-> file, threw |-> FALSE, value |-> value]
ThrowsError(file, message) == [file |-> file, threw |-> TRUE, value |-> message]

\* lines 8-13
getMembers(file) ==
  IF ~file.exists THEN << >> ELSE sheet_to_json(file.Members)

\* Mutant of saveToExcel: the new record put first (unshift for push)
saveToExcelFirst(file, data) ==
  LET worksheetData == IF file.exists
                         THEN << data >> \o sheet_to_json(file.Members)
                         ELSE << data >>
  IN  Returns(WorkbookWith(json_to_sheet(worksheetData)), "undefined")

\* lines 15-36
saveToExcel(file, data) ==
  LET worksheetData == IF file.exists
                         THEN Append(sheet_to_json(file.Members), data)
                         ELSE << data >>
  IN  Returns(WorkbookWith(json_to_sheet(worksheetData)), "undefined")

\* members.findIndex(m => m.email === updated.email): 0 when there is none
\* (indices here start at 1)
findIndexByEmail(members, email) ==
  IF \E i \in 1..Len(members) : members[i].email = email
    THEN CHOOSE i \in 1..Len(members) :
           /\ members[i].email = email
           /\ \A m \in 1..(i - 1) : members[m].email # email
    ELSE 0

\* lines 38-48; XLSX.readFile throws when the file does not exist
updateMember(file, updated) ==
  IF ~file.exists THEN ThrowsError(file, "ENOENT")
  ELSE LET members == sheet_to_json(file.Members)
           index == findIndexByEmail(members, updated.email)
       IN  IF index = 0 THEN ThrowsError(file, "Member not found")
           ELSE Returns(WorkbookWith(json_to_sheet(
                          [members EXCEPT ![index] = updated])), "undefined")

\* Mutant of deleteMember: the designation not compared
deleteMemberByEmail(file, email, designation) ==
  IF ~file.exists THEN ThrowsError(file, "ENOENT")
  ELSE LET members == sheet_to_json(file.Members)
           filtered == SelectSeq(members, LAMBDA m : ~(m.email = email))
       IN  Returns(WorkbookWith(json_to_sheet(filtered)), "undefined")

\* lines 50-60
deleteMember(file, email, designation) ==
  IF ~file.exists THEN ThrowsError(file, "ENOENT")
  ELSE LET members == sheet_to_json(file.Members)
           filtered == SelectSeq(members,
                         LAMBDA m : ~(m.email = email /\ m.designation = designation))
       IN  Returns(WorkbookWith(json_to_sheet(filtered)), "undefined")

\* lines 62-66; XLSX.readFile throws when the file does not exist
getMembersByDesignation(file, designation) ==
  IF ~file.exists THEN ThrowsError(file, "ENOENT")
  ELSE LET members == sheet_to_json(file.Members)
       IN  Returns(file, SelectSeq(members, LAMBDA m : m.designation = designation))

\* onlySaves, saves: the history of the store, while every call that wrote
\* or threw was a saveToExcel: the records saved, in call order
Called(op, arg, result) ==
  /\ excel' = result.file
  /\ LET onlySaves == /\ lastCall.onlySaves
                      /\ op \in {"saveToExcel", "getMembers"}
     IN  lastCall' = [op |-> op, arg |-> arg, pre |-> excel,
                      threw |-> result.threw, value |-> result.value,
                      onlySaves |-> onlySaves,
                      saves |-> IF ~onlySaves THEN << >>
                                ELSE IF op = "saveToExcel"
                                  THEN Append(lastCall.saves, arg)
                                  ELSE lastCall.saves]
  /\ UNCHANGED <<posterVars, mailVars, textVars, laterVars>>

SaveToExcel ==
  /\ Len(getMembers(excel)) < MaxRows
  /\ \E data \in MemberRecords :
       Called("saveToExcel", data, saveToExcel(excel, data))

UpdateMember ==
  \E updated \in MemberRecords :
    Called("updateMember", updated, updateMember(excel, updated))

DeleteMember ==
  \E email \in Emails, designation \in Designations :
    Called("deleteMember", [email |-> email, designation |-> designation],
           deleteMember(excel, email, designation))

GetMembers ==
  Called("getMembers", "none", Returns(excel, getMembers(excel)))

GetMembersByDesignation ==
  \E designation \in Designations :
    Called("getMembersByDesignation", designation,
           getMembersByDesignation(excel, designation))

PosterIdle ==
  /\ JobInit
  /\ fs = [p \in OutputPaths |-> Absent]
  /\ planWidth = ResizeWidth
  /\ plan = NoPlan

StoreInit ==
  /\ PosterIdle
  /\ StoreIdle
  /\ MailIdle
  /\ TextIdle
  /\ LaterIdle

StoreNext ==
  \/ SaveToExcel
  \/ UpdateMember
  \/ DeleteMember
  \/ GetMembers
  \/ GetMembersByDesignation

StoreSpec == StoreInit /\ [][StoreNext]_vars

\* ------------------------------------------------- claims on the store
SameKey(r, a) == r.email = a.email /\ r.designation = a.designation

\* the positions of `members` that do not hold the key of `a`
OtherKeys(members, a) == { i \in 1..Len(members) : ~SameKey(members[i], a) }

\* C11: deleteMember(email, designation) removes exactly the records whose
\* email and designation both equal the arguments: every other record stays,
\* unchanged and in the same relative order, and a second call with the same
\* arguments changes nothing.
C11_DeleteRemovesExactlyTheKey ==
  lastCall.op = "deleteMember" =>
    LET a == lastCall.arg
        was == getMembers(lastCall.pre)
        now == getMembers(excel)
        kept == OtherKeys(was, a)
    IN  /\ \A n \in 1..Len(now) : ~SameKey(now[n], a)
        /\ Len(now) = Cardinality(kept)
        /\ \A i \in kept : now[Cardinality({k \in kept : k <= i})] = was[i]
        /\ deleteMember(excel, a.email, a.designation).file = excel
        /\ lastCall.threw => (~lastCall.pre.exists /\ excel = lastCall.pre)
        /\ lastCall.pre.exists => (~lastCall.threw /\ excel.exists)

C11_Witness ==
  /\ lastCall.op = "deleteMember"
  /\ ~lastCall.threw
  /\ Len(getMembers(lastCall.pre)) = 3
  /\ Len(getMembers(excel)) = 2
  /\ SameKey(getMembers(lastCall.pre)[2], lastCall.arg)
  /\ \A n \in 1..2 : getMembers(excel)[n].email = lastCall.arg.email

\* C12 as stated: updateMember(updated) replaces the record whose email and
\* designation are those of `updated` and leaves every other record
\* unchanged, also when several records share the email.
C12_UpdateReplacesByKey ==
  lastCall.op = "updateMember" =>
    LET u == lastCall.arg
        was == getMembers(lastCall.pre)
        now == getMembers(excel)
    IN  (\E i \in 1..Len(was) : SameKey(was[i], u)) =>
          /\ ~lastCall.threw
          /\ Len(now) = Len(was)
          /\ \A i \in 1..Len(was) :
               now[i] = IF SameKey(was[i], u) THEN u ELSE was[i]

\* C13 as stated: starting from an empty store, after any sequence of
\* saveToExcel, updateMember and deleteMember calls at most one record has
\* any given (email, designation) pair.
C13_OneRecordPerKey ==
  LET now == getMembers(excel)
  IN  \A i \in 1..Len(now) : \A k \in 1..Len(now) :
        SameKey(now[i], now[k]) => i = k

\* ====================================================== the mail module
\* A designation is a string the code searches: kept as its characters.
MailDesignations ==
  { << "H", "e", "a", "l", "t", "h", " ", "i", "n", "s", "u", "r", "a", "n", "c", "e", " ", "a", "d", "v", "i", "s", "o", "r" >>,
    << "W", "e", "a", "l", "t", "h", " ", "M", "a", "n", "a", "g", "e", "r" >>,
    << "H", "E", "A", "L", "T", "H" >>,
    << "w", "e", "a", "l", "t", "h" >>,
    << "W", "e", "a", "l", "t", "h", ",", "H", "e", "a", "l", "t", "h" >>,
    << "U", "n", "h", "e", "a", "l", "t", "h", "y" >>,
    << "A", "d", "v", "i", "s", "o", "r" >>,
    << "H", "e", "a", "l", "t" >>,
    << "W", "e", "A", "l", "T", "h", " ", "m", "g", "r" >>,
    << >> }

UpperCase == << "A", "B", "C", "D", "E", "F", "G", "H", "I", "J", "K", "L", "M", "N", "O", "P", "Q", "R", "S", "T", "U", "V", "W", "X", "Y", "Z" >>
LowerCase == << "a", "b", "c", "d", "e", "f", "g", "h", "i", "j", "k", "l", "m", "n", "o", "p", "q", "r", "s", "t", "u", "v", "w", "x", "y", "z" >>

\* String.prototype.toLowerCase
toLowerCase(str) ==
  [i \in 1..Len(str) |->
     IF \E k \in 1..Len(UpperCase) : UpperCase[k] = str[i]
       THEN LowerCase[CHOOSE k \in 1..Len(UpperCase) : UpperCase[k] = str[i]]
       ELSE str[i]]

\* String.prototype.includes
includes(str, search) ==
  \E i \in 0..(Len(str) - Len(search)) : SubSeq(str, i + 1, i + Len(search)) = search

health == << "h", "e", "a", "l", "t", "h" >>
wealth == << "w", "e", "a", "l", "t", "h" >>

\* Mutant of generateSubject: the designation searched as it is written
generateSubjectCaseSensitive(designation) ==
  IF includes(designation, health)
    THEN "Reach More Families - Build Trust in Health Planning"
  ELSE IF includes(designation, wealth)
    THEN "This Simple Step Can Boost Your Wealth Advisory Reach"
  ELSE "Your Clients Trust You - Here's a Way to Grow That Trust"

\* lines 18-27
generateSubject(designation) ==
  LET lower == toLowerCase(designation)
  IN  IF includes(lower, health)
        THEN "Reach More Families - Build Trust in Health Planning"
      ELSE IF includes(lower, wealth)
        THEN "This Simple Step Can Boost Your Wealth Advisory Reach"
      ELSE "Your Clients Trust You - Here's a Way to Grow That Trust"

\* lines 29-87: the two sentences chosen by the designation, and the fields
\* the html quotes
generateEmailContent(data) ==
  LET isHealth == includes(toLowerCase(data.Designation), health)
      isWealth == includes(toLowerCase(data.Designation), wealth)
  IN  [introLine |->
         IF isHealth
           THEN "Your expertise in protecting families is more valuable than ever."
         ELSE IF isWealth
           THEN "Financial confidence begins with trust"
         ELSE "You help your clients build both security and prosperity",
       benefit |->
         IF isHealth
           THEN "This message reminds families of the power of proactive health planning."
         ELSE IF isWealth
           THEN "This message highlights smart monthly income and long-term growth"
         ELSE "This message touches both financial growth and health security",
       Name |-> data.Name, Designation |-> data.Designation,
       Phone |-> data.Phone, Email |-> data.Email]

MailRecords ==
  [Name : {"Asha Rao", "Ravi K"}, Email : {"asha@wp.in"},
   Phone : {"9999999999"}, Designation : MailDesignations]

\* lines 4-7: the credentials are both set
Configured(env) == env.EMAIL /\ env.APP_PASSWORD

\* Mutant of EmailFailed: the caught error thrown again as it is
EmailFailedRaw(message) == [kind |-> "error", message |-> << message >>]

\* line 116: new Error(`Email failed: ${err.message}`), the message kept as
\* the parts of the template
EmailFailed(message) ==
  [kind |-> "error", message |-> << "Email failed: ", message >>]

Logged(op, outcome, options) ==
  mailLog' = Append(mailLog, [op |-> op, outcome |-> outcome, options |-> options])

\* lines 89-92: the call up to `await transporter.verify()`; createTransporter
\* throws inside the try when a credential is missing
SendEmailCall ==
  /\ mailPc = "idle"
  /\ \E env \in [EMAIL : BOOLEAN, APP_PASSWORD : BOOLEAN], data \in MailRecords :
       /\ mailEnv' = env
       /\ mailData' = data
       /\ IF Configured(env)
            THEN /\ mailPc' = "verify"
                 /\ Logged("createTransport", "ok", NoMail)
                 /\ UNCHANGED mailOut
            ELSE /\ mailPc' = "threw"
                 /\ mailOut' = EmailFailed("Email credentials not configured")
                 /\ UNCHANGED mailLog
  /\ UNCHANGED <<posterVars, storeVars, textVars, laterVars>>

\* lines 92-111: verify settled; on success the subject and the html are
\* generated and sendMail is called
VerifyDone ==
  /\ mailPc = "verify"
  /\ \/ /\ mailPc' = "sendMail"
        /\ Logged("verify", "ok", NoMail)
        /\ UNCHANGED mailOut
     \/ /\ mailPc' = "threw"
        /\ Logged("verify", "fail", NoMail)
        /\ mailOut' = EmailFailed("Invalid login")
  /\ UNCHANGED <<mailEnv, mailData, posterVars, storeVars, textVars, laterVars>>

\* lines 94-109
MailOptions(data) ==
  [to |-> data.Email,
   subject |-> generateSubject(data.Designation),
   html |-> generateEmailContent(data)]

\* lines 111-117: sendMail settled
SendMailDone ==
  /\ mailPc = "sendMail"
  /\ \/ /\ mailPc' = "returned"
        /\ Logged("sendMail", "ok", MailOptions(mailData))
        /\ mailOut' = [kind |-> "result", accepted |-> mailData.Email]
     \/ /\ mailPc' = "threw"
        /\ Logged("sendMail", "fail", MailOptions(mailData))
        /\ mailOut' = EmailFailed("Connection timeout")
  /\ UNCHANGED <<mailEnv, mailData, posterVars, storeVars, textVars, laterVars>>

MailInit ==
  /\ PosterIdle
  /\ StoreIdle
  /\ MailIdle
  /\ TextIdle
  /\ LaterIdle

MailNext ==
  \/ SendEmailCall
  \/ VerifyDone
  \/ SendMailDone

MailSpec == MailInit /\ [][MailNext]_vars

\* --------------------------------------------- claims on the mail module
SubjectCategory(subject) ==
  CASE subject = "Reach More Families - Build Trust in Health Planning" -> "health"
    [] subject = "This Simple Step Can Boost Your Wealth Advisory Reach" -> "wealth"
    [] OTHER -> "generic"

IntroCategory(line) ==
  CASE line = "Your expertise in protecting families is more valuable than ever." -> "health"
    [] line = "Financial confidence begins with trust" -> "wealth"
    [] OTHER -> "generic"

BenefitCategory(line) ==
  CASE line = "This message reminds families of the power of proactive health planning." -> "health"
    [] line = "This message highlights smart monthly income and long-term growth" -> "wealth"
    [] OTHER -> "generic"

\* C14: for every designation the subject and the body are of the same
\* category: health when the lower-cased designation contains "health",
\* otherwise wealth when it contains "wealth", otherwise generic; no mail is
\* sent with a subject of one category and a body of another.
C14_SubjectAndBodyAgree ==
  /\ \A data \in MailRecords :
       LET content == generateEmailContent(data)
           category == SubjectCategory(generateSubject(data.Designation))
       IN  /\ IntroCategory(content.introLine) = category
           /\ BenefitCategory(content.benefit) = category
  /\ \A i \in 1..Len(mailLog) :
    mailLog[i].op = "sendMail" =>
      LET lower == toLowerCase(mailData.Designation)
          category == IF includes(lower, health) THEN "health"
                      ELSE IF includes(lower, wealth) THEN "wealth"
                      ELSE "generic"
          options == mailLog[i].options
      IN  /\ SubjectCategory(options.subject) = category
          /\ IntroCategory(options.html.introLine) = category
          /\ BenefitCategory(options.html.benefit) = category
          /\ options.html.Designation = mailData.Designation

C14_Witness ==
  /\ mailPc = "returned"
  /\ mailData.Designation = << "W", "e", "a", "l", "t", "h", ",", "H", "e", "a", "l", "t", "h" >>
  /\ SubjectCategory(mailLog[3].options.subject) = "health"
  /\ BenefitCategory(mailLog[3].options.html.benefit) = "health"

\* C15: a sendEmail call has one outcome.  It returns only with the
\* credentials configured and createTransport, verify and sendMail done in
\* that order, each with success; after a failure nothing more is attempted
\* and the call throws an error whose message starts with "Email failed: ".
C15_OneOutcomePerCall ==
  /\ mailPc \in {"idle", "verify", "sendMail"} <=> mailOut = NoMail
  /\ mailPc = "returned" <=> (mailOut # NoMail /\ mailOut.kind = "result")
  /\ mailPc = "returned" =>
       /\ Configured(mailEnv)
       /\ Len(mailLog) = 3
       /\ mailLog[1].op = "createTransport" /\ mailLog[2].op = "verify"
       /\ mailLog[3].op = "sendMail"
       /\ \A i \in 1..3 : mailLog[i].outcome = "ok"
  /\ mailPc = "threw" =>
       /\ mailOut.kind = "error"
       /\ mailOut.message[1] = "Email failed: "
       /\ Len(mailOut.message) = 2
       /\ \/ ~Configured(mailEnv) /\ mailLog = << >>
          \/ mailLog # << >> /\ Last(mailLog).outcome = "fail"
  /\ \A i \in 1..Len(mailLog) :
       /\ mailLog[i].outcome = "fail" => i = Len(mailLog) /\ mailPc = "threw"
       /\ mailLog[i].op = "sendMail" =>
            (i = 3 /\ mailLog[2].op = "verify" /\ mailLog[2].outcome = "ok")
  /\ (mailPc # "idle" /\ ~Configured(mailEnv)) => (mailPc = "threw" /\ mailLog = << >>)

C15_Witness ==
  /\ mailPc = "threw"
  /\ Len(mailLog) = 2
  /\ mailLog[2].op = "verify" /\ mailLog[2].outcome = "fail"
  /\ mailOut.message = << "Email failed: ", "Invalid login" >>

\* ------------------------------------------- claims on the footer geometry
\* C16: footerHeight is max(photoSize, 4 * (fontSize + 6), logoSize) + 20: it
\* is one of the three heights plus 20, and at least 20 more than the photo,
\* the four-line text block and the logo.  For the width 800 the template is
\* resized to, the earlier revision computes the same height.
C16_FooterHeightIsMaxPlus20 ==
  plan # NoPlan =>
    LET g == plan.geometry
        textBlock == 4 * (g.fontSize + 6)
    IN  /\ g.footerHeight - 20 \in {g.photoSize, textBlock, g.logoSize}
        /\ g.footerHeight >= g.photoSize + 20
        /\ g.footerHeight >= textBlock + 20
        /\ g.footerHeight >= g.logoSize + 20
        /\ g.requiredTextHeight = textBlock
        /\ planWidth = ResizeWidth =>
             /\ g.footerHeight = 164
             /\ footerHeightEarlier(planWidth) = g.footerHeight

\* a width where the text block is the tallest of the three
C16_Witness ==
  /\ plan # NoPlan
  /\ planWidth = 200
  /\ plan.geometry.photoSize = 36
  /\ plan.geometry.logoSize = 30
  /\ plan.geometry.footerHeight = 4 * (5 + 6) + 20

\* ================================================== generateFooterSVG alone
MaxFontSize == 24
MaxFooterHeight == 180

TextInit ==
  /\ PosterIdle
  /\ StoreIdle
  /\ MailIdle
  /\ LaterIdle
  /\ svgArgs \in [fontSize : 1..MaxFontSize, footerHeight : 1..MaxFooterHeight]
  /\ svgOut = None

\* lines 12-39 for the font size and footer height of svgArgs
GenerateFooterSVG ==
  /\ svgOut = None
  /\ svgOut' = generateFooterSVG("Asha Rao", "Wealth Manager", "9999999999",
                 textWidthX100(ResizeWidth), svgArgs.footerHeight, svgArgs.fontSize)
  /\ UNCHANGED <<svgArgs, posterVars, storeVars, mailVars, laterVars>>

TextNext == GenerateFooterSVG

TextSpec == TextInit /\ [][TextNext]_vars

\* C17: the four baselines are at
\* y_k = (footerHeight - 4*(fontSize+6))/2 + fontSize + k*(fontSize+6), k = 0..3
\* (compared doubled), so the block of height 4*(fontSize+6) that starts one
\* fontSize above the first baseline has the same padding above and below;
\* when footerHeight >= 4*(fontSize+6) every baseline is within
\* [0, footerHeight].
C17_BaselinesCentred ==
  svgOut # None =>
    LET f == svgArgs.fontSize
        fh == svgArgs.footerHeight
        block == 4 * (f + 6)
        y2(k) == svgOut.lines[k + 1].yX2
        above2 == y2(0) - 2 * f
        below2 == 2 * fh - (above2 + 2 * block)
    IN  /\ Len(svgOut.lines) = 4
        /\ \A k \in 0..3 : y2(k) = (fh - block) + 2 * f + 2 * k * (f + 6)
        /\ above2 = below2
        /\ fh >= block => \A k \in 0..3 : 0 <= y2(k) /\ y2(k) <= 2 * fh
        /\ svgOut.height = fh

\* the call createFinalPoster makes for width 800: baselines 50, 76, 102, 128
C17_Witness ==
  /\ svgOut # None
  /\ svgArgs = [fontSize |-> 20, footerHeight |-> 164]
  /\ svgOut.lines[1].yX2 = 100
  /\ svgOut.lines[4].yX2 = 256

\* ------------------------------------------ claims on the footer band
\* the footer bands composited so far
Footers == { loc[j].gradientFooterBuffer : j \in Jobs } \ {None}

\* C18: in a footer band of the width 800 the photo, the text block, the
\* divider and the logo follow one another from left to right, without
\* overlap and inside the canvas: 0 <= photoLeft,
\* photoLeft + photoSize <= textLeft, textLeft + textWidth <= lineX,
\* lineX + lineWidth <= logoLeft and logoLeft + logoSize <= width.
C18_LeftToRightWithoutOverlap ==
  \A j \in Jobs :
    loc[j].gradientFooterBuffer # None =>
      LET footer == loc[j].gradientFooterBuffer
          g == loc[j].geometry
          layer == footer.layers
          left2(i) == layer[i].leftX2
          right2(i) == layer[i].leftX2 + 2 * layer[i].input.width
      IN  /\ footer.width = 800
          /\ << layer[1].input.kind, layer[2].input.kind,
                layer[3].input.kind, layer[4].input.kind >>
               = << "photo", "text", "line", "logo" >>
          /\ layer[1].input.width = g.photoSize
          /\ 100 * layer[2].input.width >= g.textWidthX100
          /\ layer[3].input.width = lineWidth
          /\ layer[4].input.width = g.logoSize
          /\ 0 <= left2(1)
          /\ right2(1) <= left2(2)
          /\ right2(2) <= left2(3)
          /\ right2(3) <= left2(4)
          /\ right2(4) <= 2 * footer.width

C18_Witness ==
  \E footer \in Footers :
    /\ footer.layers[1].leftX2 = 2 * 40 /\ footer.layers[1].input.width = 144
    /\ footer.layers[2].leftX2 = 2 * 204 /\ footer.layers[2].input.width = 320
    /\ footer.layers[3].leftX2 = 2 * 564
    /\ footer.layers[4].leftX2 = 2 * 624 /\ footer.layers[4].input.width = 120

\* C19: every layer of the footer band has whole-pixel offsets, a top of
\* floor((footerHeight - layerHeight) / 2) that is at least 0, and a bottom
\* (top + layerHeight) within footerHeight: no layer is clipped by the
\* width x footerHeight canvas.
C19_LayersVerticallyCentredUnclipped ==
  \A j \in Jobs :
    loc[j].gradientFooterBuffer # None =>
      LET footer == loc[j].gradientFooterBuffer
      IN  /\ footer.height = loc[j].geometry.footerHeight
          /\ Len(footer.layers) = 4
          /\ \A i \in 1..4 :
               LET layer == footer.layers[i]
               IN  /\ layer.leftX2 % 2 = 0
                   /\ layer.top >= 0
                   /\ layer.top + layer.input.height <= footer.height
                   /\ layer.top = FloorHalf(footer.height - layer.input.height)
                   /\ layer.leftX2 >= 0
                   /\ layer.leftX2 + 2 * layer.input.width <= 2 * footer.width

C19_Witness ==
  \E footer \in Footers :
    /\ footer.height = 164
    /\ footer.layers[1].top = 10 /\ footer.layers[1].input.height = 144
    /\ footer.layers[2].top = 0 /\ footer.layers[2].input.height = 164
    /\ footer.layers[3].top = 22 /\ footer.layers[3].input.height = 120
    /\ footer.layers[4].top = 22 /\ footer.layers[4].input.height = 120

\* the divider is as tall as the logo, at the logo's top, and between the
\* text block's right edge and the logo's left edge
LineBetweenTextAndLogo(footer) ==
  LET text == footer.layers[2]
      line == footer.layers[3]
      logo == footer.layers[4]
  IN  /\ line.input.kind = "line" /\ logo.input.kind = "logo"
      /\ line.input.height = logo.input.height
      /\ line.top = logo.top
      /\ text.leftX2 + 2 * text.input.width <= line.leftX2
      /\ line.leftX2 + 2 * line.input.width <= logo.leftX2

\* C20 as stated: the divider is as tall as the logo, at the logo's top,
\* between the text block and the logo, and centred in the gap that remains
\* between the fixed margin after the text block and the logo: as much room
\* on its left as on its right.
C20_LineCentredInRemainingGap ==
  \A footer \in Footers :
    LET text == footer.layers[2]
        line == footer.layers[3]
        logo == footer.layers[4]
        gapStart2 == text.leftX2 + 2 * text.input.width + 2 * lineGap
    IN  /\ LineBetweenTextAndLogo(footer)
        /\ line.leftX2 - gapStart2
             = logo.leftX2 - (line.leftX2 + 2 * line.input.width)

\* C20 amended: the divider is as tall as the logo, at the logo's top and
\* between the text block and the logo; it starts exactly lineGap after the
\* text block's right edge, and it is the logo that is centred in the space
\* between the divider and the canvas's right edge.
C20_LineAfterFixedGap ==
  \A footer \in Footers :
    LET text == footer.layers[2]
        line == footer.layers[3]
        logo == footer.layers[4]
    IN  /\ LineBetweenTextAndLogo(footer)
        /\ line.leftX2 = text.leftX2 + 2 * text.input.width + 2 * lineGap
        /\ line.input.width = lineWidth
        /\ logo.leftX2 - (line.leftX2 + 2 * line.input.width)
             = 2 * footer.width - (logo.leftX2 + 2 * logo.input.width)

\* text block 204..524, divider 564..568, logo 624..744 of 800
C20_Witness ==
  \E j \in Jobs :
    /\ pc[j] = "fulfilled"
    /\ loc[j].gradientFooterBuffer.layers[2].leftX2 + 2 * loc[j].textMetadata.width = 2 * 524
    /\ loc[j].gradientFooterBuffer.layers[3].leftX2 = 2 * 564
    /\ loc[j].gradientFooterBuffer.layers[3].input.height = 120
    /\ loc[j].gradientFooterBuffer.layers[4].leftX2 = 2 * 624
    /\ loc[j].offsets.spaceAfterLine = 232

\* ================================================ the circular photo layers
MaxSide == 20

PhotoPaths == {"asha.jpg", "ravi.jpg", "unreadable_photo.jpg"}

\* processCircularImage, lines 44-55: the resized photo masked by the circle
\* (dest-in) and encoded with .jpeg()
ProcessedCircle(inputPath, size) ==
  [kind |-> "photo", src |-> inputPath, width |-> size, height |-> size,
   circle |-> [cxX2 |-> size, cyX2 |-> size, rX2 |-> size], format |-> "jpeg"]

\* twice the distance along one axis from the circle's centre to the nearest
\* and to the farthest point of the pixel column (or row) x
NearX2(x, cX2) ==
  IF 2 * x <= cX2 /\ cX2 <= 2 * x + 2 THEN 0
  ELSE IF cX2 < 2 * x THEN 2 * x - cX2 ELSE cX2 - (2 * x + 2)

FarX2(x, cX2) == Max2(cX2 - 2 * x, 2 * x + 2 - cX2)

\* the pixel (x, y) lies wholly outside, or wholly inside, the circle
OutsideCircle(c, x, y) ==
  NearX2(x, c.cxX2) * NearX2(x, c.cxX2) + NearX2(y, c.cyX2) * NearX2(y, c.cyX2)
    >= c.rX2 * c.rX2

InsideCircle(c, x, y) ==
  FarX2(x, c.cxX2) * FarX2(x, c.cxX2) + FarX2(y, c.cyX2) * FarX2(y, c.cyX2)
    <= c.rX2 * c.rX2

\* the alpha of pixel (x, y) after composite(circle, dest-in) on an opaque
\* photo: the mask's coverage of the pixel
MaskedAlpha(c, x, y) ==
  IF InsideCircle(c, x, y) THEN 255
  ELSE IF OutsideCircle(c, x, y) THEN 0
  ELSE 128

\* the alpha of pixel (x, y) of the encoded layer once decoded: png keeps the
\* alpha channel; jpeg has none, the encoder flattens the image onto black
\* and every decoded pixel is opaque
DecodedAlpha(layer, x, y) ==
  IF layer.format = "png" THEN MaskedAlpha(layer.circle, x, y) ELSE 255

CircleInit ==
  /\ PosterIdle
  /\ StoreIdle
  /\ MailIdle
  /\ TextIdle
  /\ admin = None /\ app = None /\ form = None
  /\ circle \in [kind : {"idle"},
                 fn : {"processCircularImage", "createFinalPoster"},
                 inputPath : PhotoPaths, size : 1..MaxSide, layer : {None}]

CircleUnchanged == UNCHANGED <<posterVars, storeVars, mailVars, textVars, admin, app, form>>

\* processCircularImage(inputPath, outputPath, size): the awaited toBuffer
\* and the write of the file that follows it
ProcessCircularImage ==
  /\ circle.kind = "idle"
  /\ circle.fn = "processCircularImage"
  /\ \/ /\ FileAt(circle.inputPath).decodable
        /\ circle' = [circle EXCEPT !.kind = "written",
                        !.layer = ProcessedCircle(circle.inputPath, circle.size)]
     \/ circle' = [circle EXCEPT !.kind = "threw"]
  /\ CircleUnchanged

\* createFinalPoster, lines 89-98, for a photoSize of circle.size
CircularPhotoLayer ==
  /\ circle.kind = "idle"
  /\ circle.fn = "createFinalPoster"
  /\ \/ /\ FileAt(circle.inputPath).decodable
        /\ circle' = [circle EXCEPT !.kind = "written",
                        !.layer = CircularPhoto(circle.inputPath, circle.size)]
     \/ circle' = [circle EXCEPT !.kind = "threw"]
  /\ CircleUnchanged

CircleNext ==
  \/ ProcessCircularImage
  \/ CircularPhotoLayer

CircleSpec == CircleInit /\ [][CircleNext]_vars

\* C21: every circular photo layer produced, by createFinalPoster or by
\* processCircularImage, is a square of the requested side; decoded, its
\* pixels outside the inscribed circle are transparent and its pixels
\* inside it are opaque.
C21_CircleLayersMaskedWhenDecoded ==
  circle.kind = "written" =>
    LET layer == circle.layer
    IN  /\ layer.width = circle.size /\ layer.height = circle.size
        /\ \A x \in 0..(circle.size - 1) : \A y \in 0..(circle.size - 1) :
             /\ OutsideCircle(layer.circle, x, y) => DecodedAlpha(layer, x, y) = 0
             /\ InsideCircle(layer.circle, x, y) => DecodedAlpha(layer, x, y) = 255

\* ======================================================== the AdminPanel
\* The characters of the strings the panel handles
CharsOf(str) ==
  CASE str = "Health insurance advisor" ->
         << "H", "e", "a", "l", "t", "h", " ", "i", "n", "s", "u", "r", "a", "n", "c", "e", " ", "a", "d", "v", "i", "s", "o", "r" >>
    [] str = "Wealth Manager" ->
         << "W", "e", "a", "l", "t", "h", " ", "M", "a", "n", "a", "g", "e", "r" >>
    [] str = "Agent,Wealth Manager " ->
         << "A", "g", "e", "n", "t", ",", "W", "e", "a", "l", "t", "h", " ", "M", "a", "n", "a", "g", "e", "r", " " >>
    [] str = "Health insurance advisor, Wealth Manager" ->
         << "H", "e", "a", "l", "t", "h", " ", "i", "n", "s", "u", "r", "a", "n", "c", "e", " ", "a", "d", "v", "i", "s", "o", "r", ",", " ", "W", "e", "a", "l", "t", "h", " ", "M", "a", "n", "a", "g", "e", "r" >>
    [] OTHER -> << >>

\* The users the server may hold.  A designation is a comma-separated list.
ServerUser(id) ==
  CASE id = "B" -> [id |-> "B", email |-> "ravi@wp.in",
                    designation |-> "Agent,Wealth Manager "]
    [] OTHER    -> [id |-> "C", email |-> "meera@wp.in",
                    designation |-> "Health insurance advisor, Wealth Manager"]

\* the bodies GET api/users may answer with
UserLists ==
  { << >>,
    << ServerUser("C"), ServerUser("B") >> }

\* String.prototype.split(',')
RECURSIVE split(_)
split(str) ==
  IF \E i \in 1..Len(str) : str[i] = ","
    THEN LET i == CHOOSE k \in 1..Len(str) :
                    str[k] = "," /\ \A m \in 1..(k - 1) : str[m] # ","
         IN  << SubSeq(str, 1, i - 1) >> \o split(SubSeq(str, i + 1, Len(str)))
    ELSE << str >>

\* String.prototype.trim
trim(str) ==
  LET kept == { i \in 1..Len(str) : str[i] # " " }
  IN  IF kept = {} THEN << >>
      ELSE SubSeq(str, CHOOSE i \in kept : \A k \in kept : i <= k,
                       CHOOSE i \in kept : \A k \in kept : i >= k)

\* Array.prototype.includes
arrayIncludes(array, value) == \E i \in 1..Len(array) : array[i] = value

\* lines 58-83: the record handed to setDashboardStats
calculateDashboardStats(usersList) ==
  LET designations(user) ==
        LET parts == split(CharsOf(user.designation))
        IN  [i \in 1..Len(parts) |-> trim(parts[i])]
      isHealth(user) ==
        arrayIncludes(designations(user), CharsOf("Health insurance advisor"))
      isWealth(user) == arrayIncludes(designations(user), CharsOf("Wealth Manager"))
      count(P(_)) == Cardinality({ i \in 1..Len(usersList) : P(usersList[i]) })
      either(user) == isHealth(user) \/ isWealth(user)
  IN  [totalUsers |-> Len(usersList),
       healthAdvisors |-> count(isHealth),
       wealthManagers |-> count(isWealth),
       designatedUsers |-> count(either)]

\* Array.prototype.filter(u => u.id !== id)
FilterOutId(usersList, id) ==
  LET keep == { i \in 1..Len(usersList) : usersList[i].id # id }
      RECURSIVE build(_)
      build(i) == IF i > Len(usersList) THEN << >>
                  ELSE IF i \in keep THEN << usersList[i] >> \o build(i + 1)
                  ELSE build(i + 1)
  IN  build(1)

\* Array.prototype.map(u => u.id === id ? user : u)
MapReplaceId(usersList, id, user) ==
  [i \in 1..Len(usersList) |-> IF usersList[i].id = id THEN user ELSE usersList[i]]

MaxDeletes == 1
MaxUpdates == 1

NoUser == [id |-> "", email |-> "", designation |-> ""]
NoClosure == [id |-> "", users |-> << >>]

\* the first DELETE and PUT, for two different users, found in flight at the
\* same time, and which of the two has settled with an ok response
NoRace == [deleteId |-> "", updateId |-> "", deleteOk |-> FALSE, updateOk |-> FALSE,
           dataUser |-> NoUser]

\* a request in flight, with what the closure that awaits it captured
Request(method, id, body, usersList) ==
  [method |-> method, id |-> id, body |-> body, users |-> usersList]

Event(op, id, outcome) == [op |-> op, id |-> id, outcome |-> outcome]

\* lines 35-49 and the effect of line 99: the state on mount, with the first
\* fetchUsers in flight.  users of an error response's body is not an array:
\* usersIsArray is FALSE then.  sent, openedFor (the user the open modal
\* was opened for) and race record the history, event the last request sent or settled or the
\* last press of Cancel.
AdminMount ==
  [users |-> << >>, usersIsArray |-> TRUE, editingUser |-> NoUser,
   loading |-> TRUE, error |-> "null",
   dashboardStats |-> [totalUsers |-> 0, healthAdvisors |-> 0,
                       wealthManagers |-> 0, designatedUsers |-> 0],
   showConfirmModal |-> FALSE, confirmAction |-> NoClosure, confirmMessage |-> "",
   requests |-> { Request("GET", "", NoUser, << >>) },
   sent |-> [DELETE |-> 0, PUT |-> 0], openedFor |-> "", race |-> NoRace,
   event |-> Event("mount", "", "")]

AdminInit ==
  /\ PosterIdle
  /\ StoreIdle
  /\ MailIdle
  /\ TextIdle
  /\ circle = None /\ app = None /\ form = None
  /\ admin = AdminMount

AdminUnchanged == UNCHANGED <<posterVars, storeVars, mailVars, textVars, circle, app, form>>

\* the list is on the page: the first fetch is over and users is an array
\* (users.map of line 412 throws otherwise and the component is gone)
Listed(a) == a.usersIsArray /\ ~a.loading /\ ~a.showConfirmModal

\* the page can be clicked: the component is rendered and the confirmation
\* modal (line 463, fixed inset-0 z-50) does not cover it
Page(a) == a.usersIsArray /\ ~a.showConfirmModal

InFlight(a, method) == { r \in a.requests : r.method = method }

\* lines 85-97: the first fetch settles.  response.ok is not looked at: the
\* JSON body of an error response is stored as users, and
\* calculateDashboardStats throws on it (forEach is not a function)
FetchUsersDone ==
  /\ \E r \in InFlight(admin, "GET") :
       \/ \E data \in UserLists :
            admin' = [admin EXCEPT !.users = data, !.usersIsArray = TRUE,
                        !.dashboardStats = calculateDashboardStats(data),
                        !.loading = FALSE, !.requests = @ \ {r},
                        !.event = Event("fetchUsers", "", "ok")]
       \/ admin' = [admin EXCEPT !.users = << >>, !.usersIsArray = FALSE,
                      !.error = "Failed to fetch users",
                      !.loading = FALSE, !.requests = @ \ {r},
                      !.event = Event("fetchUsers", "", "nonok")]
       \/ admin' = [admin EXCEPT !.error = "Failed to fetch users",
                      !.loading = FALSE, !.requests = @ \ {r},
                      !.event = Event("fetchUsers", "", "reject")]
  /\ AdminUnchanged

\* Mutant of handleDeleteClosure: the closure built for the first user listed
handleDeleteClosureFirst(id, usersList) == [id |-> usersList[1].id, users |-> usersList]

\* lines 141-157: the async function handed to setConfirmAction closes over
\* id and over the users of the render it was made in
handleDeleteClosure(id, usersList) == [id |-> id, users |-> usersList]

\* lines 139-158
HandleDelete ==
  /\ Listed(admin)
  /\ \E i \in 1..Len(admin.users) :
       admin' = [admin EXCEPT
                   !.confirmMessage = "Are you sure you want to delete this user?",
                   !.confirmAction = handleDeleteClosure(admin.users[i].id, admin.users),
                   !.showConfirmModal = TRUE,
                   !.openedFor = admin.users[i].id]
  /\ AdminUnchanged

\* lines 210-214 and 141-144: Confirm calls confirmAction, which sends the
\* DELETE and awaits it
HandleConfirm ==
  /\ admin.usersIsArray /\ admin.showConfirmModal
  /\ admin.confirmAction # NoClosure
  /\ admin.sent.DELETE < MaxDeletes
  /\ LET c == admin.confirmAction
         r == Request("DELETE", c.id, NoUser, c.users)
     IN  /\ r \notin admin.requests
         /\ admin' = [admin EXCEPT !.requests = @ \cup {r}, !.sent.DELETE = @ + 1,
                        !.race = LET others == { u \in InFlight(admin, "PUT") : u.id # c.id }
                                 IN  IF @ = NoRace /\ others # {}
                                       THEN [NoRace EXCEPT !.deleteId = c.id,
                                               !.updateId = (CHOOSE u \in others : TRUE).id]
                                       ELSE @,
                        !.event = Event("handleConfirm", c.id,
                                    IF admin.event.op = "handleCancelConfirm"
                                       /\ admin.event.id # c.id
                                      THEN "afterCancelOfAnother" ELSE "")]
  /\ AdminUnchanged

\* lines 216-220
HandleCancelConfirm ==
  /\ admin.usersIsArray /\ admin.showConfirmModal
  /\ admin' = [admin EXCEPT !.showConfirmModal = FALSE, !.confirmAction = NoClosure,
                 !.confirmMessage = "", !.openedFor = "",
                 !.event = Event("handleCancelConfirm", admin.openedFor, "")]
  /\ AdminUnchanged

\* lines 145-156: the DELETE settles.  A response, ok or not, takes the try
\* branch; only a rejected fetch takes the catch
DeleteDone ==
  /\ \E r \in InFlight(admin, "DELETE") : \E outcome \in {"ok", "nonok", "reject"} :
       LET updatedUsers == FilterOutId(r.users, r.id)
           settled == [admin EXCEPT !.requests = @ \ {r},
                         !.showConfirmModal = FALSE, !.confirmAction = NoClosure,
                         !.openedFor = "",
                         !.race.deleteOk = @ \/ (outcome = "ok" /\ admin.race.deleteId = r.id),
                         !.event = Event("deleteDone", r.id, outcome)]
       IN  admin' = IF outcome = "reject"
                      THEN [settled EXCEPT !.error = "Failed to delete user"]
                      ELSE [settled EXCEPT !.users = updatedUsers,
                              !.dashboardStats = calculateDashboardStats(updatedUsers),
                              !.error = "null"]
  /\ AdminUnchanged

\* lines 160-163
handleEdit(a, user) ==
  [a EXCEPT !.editingUser = user, !.error = "null"]

HandleEdit ==
  /\ Listed(admin)
  /\ \E i \in 1..Len(admin.users) :
       admin' = handleEdit(admin, admin.users[i])
  /\ AdminUnchanged

\* lines 201-208, for the e-mail typed into the search box
HandleSearch ==
  /\ Page(admin)
  /\ \E searchEmail \in {"meera@wp.in", "nobody@wp.in"} :
       LET found == { i \in 1..Len(admin.users) : admin.users[i].email = searchEmail }
       IN  admin' = IF found # {}
                      THEN handleEdit(admin,
                             admin.users[CHOOSE i \in found : \A k \in found : i <= k])
                      ELSE [admin EXCEPT !.error = "User not found with this email"]
  /\ AdminUnchanged

\* lines 165-175, for the designation select: one of the two roles
HandleEditChange ==
  /\ Page(admin)
  /\ admin.editingUser # NoUser
  /\ \E value \in {"Health insurance advisor", "Wealth Manager"} :
       admin' = [admin EXCEPT !.editingUser.designation = value]
  /\ AdminUnchanged

\* line 388: the form's Cancel button
CancelEdit ==
  /\ Page(admin)
  /\ admin.editingUser # NoUser
  /\ admin' = [admin EXCEPT !.editingUser = NoUser]
  /\ AdminUnchanged

\* lines 177-186: the form is submitted; the PUT carries editingUser, and the
\* code after the await sees the users and editingUser of this render
HandleUpdate ==
  /\ Page(admin)
  /\ admin.editingUser # NoUser
  /\ admin.sent.PUT < MaxUpdates
  /\ LET r == Request("PUT", admin.editingUser.id, admin.editingUser, admin.users)
     IN  /\ r \notin admin.requests
         /\ admin' = [admin EXCEPT !.requests = @ \cup {r}, !.sent.PUT = @ + 1,
                        !.race = LET others == { d \in InFlight(admin, "DELETE") : d.id # r.id }
                                 IN  IF @ = NoRace /\ others # {}
                                       THEN [NoRace EXCEPT !.updateId = r.id,
                                               !.deleteId = (CHOOSE d \in others : TRUE).id]
                                       ELSE @,
                        !.event = Event("handleUpdate", r.id, "")]
  /\ AdminUnchanged

\* lines 188-198: the PUT settles; an ok response carries the updated record
\* as data.user
UpdateDone ==
  /\ \E r \in InFlight(admin, "PUT") : \E outcome \in {"ok", "nonok", "reject"} :
       LET dataUser == r.body
           updatedUsers == MapReplaceId(r.users, r.id, dataUser)
           settled == [admin EXCEPT !.requests = @ \ {r},
                         !.event = Event("updateDone", r.id, outcome)]
       IN  admin' =
             CASE outcome = "ok" ->
                    [settled EXCEPT !.users = updatedUsers,
                       !.dashboardStats = calculateDashboardStats(updatedUsers),
                       !.editingUser = NoUser, !.error = "null",
                       !.race = IF @.updateId = r.id
                                  THEN [@ EXCEPT !.updateOk = TRUE, !.dataUser = dataUser]
                                  ELSE @]
               [] outcome = "nonok" -> [settled EXCEPT !.error = "Update failed"]
               [] OTHER -> [settled EXCEPT !.error = "Failed to fetch"]
  /\ AdminUnchanged

AdminNext ==
  \/ FetchUsersDone
  \/ HandleDelete
  \/ HandleConfirm
  \/ HandleCancelConfirm
  \/ DeleteDone
  \/ HandleEdit
  \/ HandleSearch
  \/ HandleEditChange
  \/ CancelEdit
  \/ HandleUpdate
  \/ UpdateDone

AdminSpec == AdminInit /\ [][AdminNext]_vars

\* ------------------------------------------------ claims on the AdminPanel
\* the user with this id as the list shows it, or NoUser
Shown(id) ==
  IF \E i \in 1..Len(admin.users) : admin.users[i].id = id
    THEN admin.users[CHOOSE i \in 1..Len(admin.users) : admin.users[i].id = id]
    ELSE NoUser

\* C22: a DELETE of user A and a PUT of another user B were in flight at the
\* same time and both have settled with an ok response, in either order:
\* the list then has no A and shows B as the server returned it.
C22_ConcurrentDeleteAndUpdateBothKept ==
  ( /\ admin.race.deleteOk /\ admin.race.updateOk
    /\ admin.event.op \in {"deleteDone", "updateDone"}
    /\ admin.event.outcome = "ok"
    /\ admin.event.id \in {admin.race.deleteId, admin.race.updateId} ) =>
      /\ Shown(admin.race.deleteId) = NoUser
      /\ Shown(admin.race.updateId) = admin.race.dataUser

\* the roles in a comma-separated designation list
RolesOf(user) ==
  LET parts == split(CharsOf(user.designation))
  IN  { trim(parts[i]) : i \in 1..Len(parts) }

\* C23: whenever no request is in flight, dashboardStats is the statistics of
\* the users list: its length, the number of users with each role in their
\* designation list, and the number of users with at least one of the two.
C23_StatsMatchUsers ==
  admin.requests = {} =>
    /\ admin.usersIsArray
    /\ LET with(roles) == Cardinality({ i \in 1..Len(admin.users) :
                                         RolesOf(admin.users[i]) \cap roles # {} })
           advisor == CharsOf("Health insurance advisor")
           manager == CharsOf("Wealth Manager")
       IN  /\ admin.dashboardStats.totalUsers = Len(admin.users)
           /\ admin.dashboardStats.healthAdvisors = with({advisor})
           /\ admin.dashboardStats.wealthManagers = with({manager})
           /\ admin.dashboardStats.designatedUsers = with({advisor, manager})

\* C24: a DELETE is sent only by a press of Confirm in an open modal, and for
\* the user the open modal was opened for by handleDelete; a press of Cancel
\* closes the modal, sends nothing and leaves users and dashboardStats as
\* they were.
C24_DeleteOnlyAfterConfirm ==
  [][ /\ \A r \in admin'.requests \ admin.requests :
           r.method = "DELETE" =>
             /\ admin.showConfirmModal
             /\ admin'.event.op = "handleConfirm"
             /\ admin.openedFor # ""
             /\ r.id = admin.openedFor
      /\ ( /\ admin'.event.op = "handleCancelConfirm"
           /\ admin.showConfirmModal /\ ~admin'.showConfirmModal ) =>
             /\ admin'.requests = admin.requests
             /\ admin'.users = admin.users
             /\ admin'.dashboardStats = admin.dashboardStats
             /\ admin'.confirmAction = NoClosure
    ]_vars

\* the modal opened for C was cancelled, then the one opened for B confirmed
C24_Witness ==
  /\ admin.event = Event("handleConfirm", "B", "afterCancelOfAnother")
  /\ \E r \in admin.requests : r.method = "DELETE" /\ r.id = "B"
  /\ \A r \in admin.requests : r.method = "DELETE" => r.id # "C"

\* C25: when a confirmed DELETE fails, by a rejected fetch or by a response
\* that is not ok, users and dashboardStats stay as they were and error is
\* set; failed or not, the modal is closed once the request has settled.
C25_FailedDeleteChangesNothing ==
  [][ ( /\ admin'.event.op = "deleteDone"
        /\ admin'.requests # admin.requests ) =>
          /\ ~admin'.showConfirmModal
          /\ admin'.event.outcome # "ok" =>
               /\ admin'.users = admin.users
               /\ admin'.dashboardStats = admin.dashboardStats
               /\ admin'.error # "null"
    ]_vars

\* ===================================================== the role-based App
MaxLogins == 3

\* App's state (selectedAction, role) and LoginPage's (email, password),
\* which is fresh every time LoginPage is mounted.  alerted: handleLogin's
\* last alert is on screen.  login, logins and everListed record the history:
\* the pair the last accepted login was made with, the number of accepted
\* logins, whether MemberList was ever displayed.
AppMount ==
  [selectedAction |-> "", role |-> "", email |-> "", password |-> "",
   alerted |-> FALSE, login |-> << "", "" >>, logins |-> 0, everListed |-> FALSE]

AppInit ==
  /\ PosterIdle
  /\ StoreIdle
  /\ MailIdle
  /\ TextIdle
  /\ circle = None /\ admin = None /\ form = None
  /\ app = AppMount

AppUnchanged == UNCHANGED <<posterVars, storeVars, mailVars, textVars, circle, admin, form>>

\* LoginPage, the inputs' onChange
SetEmail ==
  /\ app.role = ""
  /\ \E value \in {"admin", "Admin", "user", "guest"} :
       app' = [app EXCEPT !.email = value, !.alerted = FALSE]
  /\ AppUnchanged

SetPassword ==
  /\ app.role = ""
  /\ \E value \in {"admin123", "user123", "admin"} :
       app' = [app EXCEPT !.password = value, !.alerted = FALSE]
  /\ AppUnchanged

\* LoginPage's handleLogin with onLogin = setRole; LoginPage is unmounted
\* once role is set
HandleLogin ==
  /\ app.role = ""
  /\ app.logins < MaxLogins
  /\ LET accepted(role) ==
           [app EXCEPT !.role = role, !.email = "", !.password = "", !.alerted = FALSE,
              !.login = << app.email, app.password >>, !.logins = @ + 1]
     IN  app' = IF app.email = "admin" /\ app.password = "admin123" THEN accepted("admin")
                ELSE IF app.email = "user" /\ app.password = "user123" THEN accepted("user")
                ELSE [app EXCEPT !.alerted = TRUE]
  /\ AppUnchanged

\* the two buttons every role has
SelectRegisterOrSend ==
  /\ app.role # ""
  /\ \E action \in {"register", "send"} : app' = [app EXCEPT !.selectedAction = action]
  /\ AppUnchanged

\* the "View / Edit Members" button, rendered for role admin only
SelectList ==
  /\ app.role = "admin"
  /\ app' = [app EXCEPT !.selectedAction = "list", !.everListed = TRUE]
  /\ AppUnchanged

\* Mutant of logout: selectedAction left as it is
logoutKeepingAction(a) == [a EXCEPT !.role = ""]

\* the Logout button: setSelectedAction(""); setRole("")
logout(a) == [a EXCEPT !.selectedAction = "", !.role = ""]

Logout ==
  /\ app.role # ""
  /\ app' = logout(app)
  /\ AppUnchanged

AppNext ==
  \/ SetEmail
  \/ SetPassword
  \/ HandleLogin
  \/ SelectRegisterOrSend
  \/ SelectList
  \/ Logout

AppSpec == AppInit /\ [][AppNext]_vars

\* C26: selectedAction = "list" only with role = "admin"; with no role
\* selectedAction is empty, so a session logged in as "user" never displays
\* MemberList; and role is set only by a login with the matching pair.
C26_ListOnlyForAdmin ==
  /\ app.selectedAction = "list" => app.role = "admin"
  /\ app.role = "" => app.selectedAction = ""
  /\ app.role = "user" => app.selectedAction \in {"", "register", "send"}
  /\ app.role \in {"", "admin", "user"}
  /\ app.role = "admin" => app.login = << "admin", "admin123" >>
  /\ app.role = "user" => app.login = << "user", "user123" >>
  /\ app.role # "" => app.logins > 0

\* a user session that follows an admin session in which the list was shown
C26_Witness ==
  /\ app.role = "user"
  /\ app.everListed
  /\ app.logins = 2
  /\ app.selectedAction = "send"

\* ============================================== the forms and their submit
MaxSubmits == 2

\* the three forms with a loading flag: SendPosters.tsx, MemberRegistration.tsx
\* and the later SendPosters of part_007
FormComponents == {"SendPosters", "MemberRegistration", "SendPostersWithMessage"}

\* request: what handleSubmit awaits ("fetch", then the response's "body"),
\* with the response's ok flag; message: the alert shown or the message set
DesignationOptions(component) ==
  IF component = "SendPostersWithMessage"
    THEN {"Health insurance advisor", "Wealth Manager", "both"}
    ELSE {"Health Insurance Advisor", "Wealth Manager"}

FormMount(component) ==
  [component |-> component,
   designation |-> IF component = "SendPostersWithMessage"
                     THEN "Health insurance advisor" ELSE "Health Insurance Advisor",
   file |-> FALSE, loading |-> FALSE, request |-> "none", ok |-> FALSE,
   message |-> "null", submits |-> 0]

FormInit ==
  /\ PosterIdle
  /\ StoreIdle
  /\ MailIdle
  /\ TextIdle
  /\ circle = None /\ admin = None /\ app = None
  /\ form \in { FormMount(component) : component \in FormComponents }

FormUnchanged == UNCHANGED <<posterVars, storeVars, mailVars, textVars, circle, admin, app>>

\* the select and the file input; neither is disabled while loading
SetDesignation ==
  /\ \E value \in DesignationOptions(form.component) :
       form' = [form EXCEPT !.designation = value]
  /\ FormUnchanged

SetFile ==
  /\ form' = [form EXCEPT !.file = TRUE,
                !.message = IF form.component = "SendPostersWithMessage"
                              THEN "null" ELSE @]
  /\ FormUnchanged

\* handleSubmit up to `await fetch(...)`; the button is disabled while loading
HandleSubmit ==
  /\ ~form.loading
  /\ form.submits < MaxSubmits
  /\ form' =
       IF form.component = "SendPostersWithMessage" /\ ~form.file
         THEN [form EXCEPT !.message = "Please select a poster template image.",
                 !.submits = @ + 1]
         ELSE [form EXCEPT !.loading = TRUE, !.request = "fetch", !.submits = @ + 1,
                 !.message = IF form.component = "SendPostersWithMessage"
                               THEN "null" ELSE @]
  /\ FormUnchanged

\* an awaited promise rejects.  part_007 catches it (lines 46-52) and its
\* finally clears loading; in the other two forms nothing catches it and the
\* rest of handleSubmit, setLoading(false) included, never runs
rejected(f) ==
  IF f.component = "SendPostersWithMessage"
    THEN [f EXCEPT !.request = "none", !.loading = FALSE,
            !.message = "Server error. Please try again."]
    ELSE [f EXCEPT !.request = "none"]

\* fetch settles: with a response, ok or not, or with a rejection
FetchSettles ==
  /\ form.request = "fetch"
  /\ \/ \E ok \in BOOLEAN : form' = [form EXCEPT !.request = "body", !.ok = ok]
     \/ form' = rejected(form)
  /\ FormUnchanged

\* res.text() / res.json() settles, and the rest of handleSubmit runs
BodySettles ==
  /\ form.request = "body"
  /\ \/ form' = [form EXCEPT !.request = "none", !.loading = FALSE,
                   !.message = IF form.ok THEN "result" ELSE "error result"]
     \/ form' = rejected(form)
  /\ FormUnchanged

FormNext ==
  \/ SetDesignation
  \/ SetFile
  \/ HandleSubmit
  \/ FetchSettles
  \/ BodySettles

\* every request is answered or fails in the end
FormSpec ==
  FormInit /\ [][FormNext]_vars /\ WF_vars(FetchSettles) /\ WF_vars(BodySettles)

\* C27: in every form, whenever loading is true it is false again later:
\* every submit returns loading to false, whether the request succeeds,
\* gets an error response, or the fetch itself fails.
C27_LoadingAlwaysReturnsToFalse ==
  form.loading ~> ~form.loading

\* ------------------------------------------ further claims on the store
HasEmail(members, email) == \E i \in 1..Len(members) : members[i].email = email

\* C28: updateMember(updated) on a store in which no record has the email of
\* `updated` throws 'Member not found' and writes nothing: the store is as it
\* was before the call.
C28_UpdateOfUnknownEmailThrowsNotFound ==
  (/\ lastCall.op = "updateMember"
   /\ ~HasEmail(getMembers(lastCall.pre), lastCall.arg.email)) =>
    /\ lastCall.threw
    /\ lastCall.value = "Member not found"
    /\ excel = lastCall.pre

\* C29: in every state of the store, the one where the file was never created
\* included, getMembersByDesignation(d) returns the records of getMembers()
\* whose designation is d, in the same order.
C29_ByDesignationFiltersGetMembers ==
  lastCall.op = "getMembersByDesignation" =>
    /\ ~lastCall.threw
    /\ lastCall.value = SelectSeq(getMembers(lastCall.pre),
                                  LAMBDA m : m.designation = lastCall.arg)

\* C30: saveToExcel(d) appends: whether the file was absent or held the list
\* L, getMembers() afterwards is L followed by d, the earlier records
\* unchanged and in their order; and after n saves on an empty store
\* getMembers() is the n records in call order.
C30_SaveAppends ==
  /\ lastCall.op = "saveToExcel" =>
       /\ ~lastCall.threw
       /\ getMembers(excel) = Append(getMembers(lastCall.pre), lastCall.arg)
  /\ lastCall.onlySaves => getMembers(excel) = lastCall.saves

C30_Witness ==
  /\ lastCall.op = "saveToExcel"
  /\ lastCall.onlySaves
  /\ Len(lastCall.saves) = 3
  /\ lastCall.saves[1] # lastCall.saves[2]
  /\ lastCall.saves[2] # lastCall.saves[3]
  /\ getMembers(excel) = lastCall.saves
  /\ Len(getMembers(lastCall.pre)) = 2

====
